---------------------------- MODULE Spec2Model ----------------------------
(***************************************************************************)
(* Label tokenization of the TIMIT preprocessing scripts:                  *)
(*   timit/transcript_character.py  (Char2idx, read_char)                  *)
(*   timit/transcript_phone.py      (Phone2idx, map_phone2phone,           *)
(*                                   read_phone)                           *)
(*   timit/main.py                  (the train / dev / test loop)          *)
(*                                                                         *)
(* A Python str is a sequence of one-character strings, a text file is a   *)
(* sequence of lines (each a str, without its newline), a dict is a        *)
(* function, a set is a set.  Exceptions are the values of `error`.        *)
(***************************************************************************)
EXTENDS Integers, Sequences, FiniteSets, TLC

VARIABLES
    labels,            \* which label kinds the run processes: "character", "phone", "all"
    data_type,         \* main: the split of the current loop iteration
    pc,                \* position in main / read_char / read_phone
    save_vocab_file,   \* argument of the current read_char / read_phone call
    is_test,           \* argument of the current read_char / read_phone call
    files,             \* the vocabulary files under ./config/vocab_files
    phone2phone,       \* the collapse table file ../phone2phone.txt (lines)
    remove_list,       \* remove_list argument of the indexer constructors
    char_set,          \* read_char: plain character set
    char_capital_set,  \* read_char: capital-divided unit set
    char2idx,          \* read_char: Char2idx(character.txt)
    char2idx_capital,  \* read_char: Char2idx(character_capital_divide.txt, capital_divide=True)
    phone61_set,       \* read_phone: symbol sets taken from the collapse table
    phone48_set,
    phone39_set,
    phone2idx_61,      \* read_phone: the three Phone2idx objects
    phone2idx_48,
    phone2idx_39,
    trans_dict,        \* read_char / read_phone: utterances in insertion order
    n_tokenized,       \* position of the tokenize loop in trans_dict
    written,           \* names of the vocabulary files written by the current call
    error,             \* the exception that ended the run, or "none"
    returned           \* value the last completed call returned to main

vars == <<labels, data_type, pc, save_vocab_file, is_test, files, phone2phone,
          remove_list, char_set, char_capital_set, char2idx, char2idx_capital,
          phone61_set, phone48_set, phone39_set, phone2idx_61, phone2idx_48,
          phone2idx_39, trans_dict, n_tokenized, written, error, returned>>

----------------------------------------------------------------------------
(* Bounds of the model.                                                    *)

\* total number of characters (spaces included) of the transcripts of one split
MaxChars == 4
\* the same, when character and phone labels are processed in one run
MaxCharsAll == 2
\* total number of phone segments of the utterances of one split
MaxPhones == 3
\* the same, when character and phone labels are processed in one run
MaxPhonesAll == 1
\* number of lines of a vocabulary file handed directly to an indexer
MaxVocab == 3
\* length of the exclusion list handed to an indexer
MaxRemove == 1
\* the characters of the corpus of one vocabulary-building call of read_char
MaxCharsVocab == 4
\* the characters after the frame markers in the raw label lines of a split
MaxRawChars == 3

----------------------------------------------------------------------------
(* Python str operations used by the scripts.                              *)

\* code point of the characters that occur in the model (sorted() order)
Ord(c) ==
    CASE c = " " -> 32  [] c = "'" -> 39  [] c = "0" -> 48  [] c = "1" -> 49
      [] c = "<" -> 60  [] c = ">" -> 62  [] c = "A" -> 65  [] c = "L" -> 76
      [] c = "_" -> 95  [] c = "a" -> 97  [] c = "h" -> 104 [] c = "l" -> 108
      [] c = "n" -> 110 [] c = "o" -> 111 [] c = "q" -> 113 [] c = "s" -> 115
      [] c = "z" -> 122

\* str.upper() of one character
UpperChar(c) ==
    CASE c = "a" -> "A" [] c = "l" -> "L" [] c = "h" -> "H" [] c = "n" -> "N"
      [] c = "o" -> "O" [] c = "q" -> "Q" [] c = "s" -> "S" [] c = "z" -> "Z"
      [] OTHER -> c

\* str.upper()
Upper(s) == [i \in 1..Len(s) |-> UpperChar(s[i])]

\* s < t for Python strings (lexicographic by code point)
RECURSIVE StrLess(_, _)
StrLess(s, t) ==
    IF t = <<>> THEN FALSE
    ELSE IF s = <<>> THEN TRUE
    ELSE IF Ord(s[1]) # Ord(t[1]) THEN Ord(s[1]) < Ord(t[1])
    ELSE StrLess(Tail(s), Tail(t))

\* a sort in descending order
RECURSIVE sorted_descending(_)
sorted_descending(S) ==
    IF S = {} THEN <<>>
    ELSE LET m == CHOOSE x \in S : \A y \in S \ {x} : StrLess(y, x)
         IN  <<m>> \o sorted_descending(S \ {m})

\* sorted(list(S)) for a set S of strings
RECURSIVE sorted(_)
sorted(S) ==
    IF S = {} THEN <<>>
    ELSE LET m == CHOOSE x \in S : \A y \in S \ {x} : StrLess(x, y)
         IN  <<m>> \o sorted(S \ {m})

\* s[i:j] with 0-based Python indices 0 <= i <= j
Slice(s, i, j) == SubSeq(s, i + 1, IF j > Len(s) THEN Len(s) ELSE j)

\* s.split(sep) for a one-character separator
RECURSIVE split(_, _)
split(s, sep) ==
    IF \A i \in 1..Len(s) : s[i] # sep THEN <<s>>
    ELSE LET i == CHOOSE i \in 1..Len(s) :
                      s[i] = sep /\ \A j \in 1..(i - 1) : s[j] # sep
         IN  <<SubSeq(s, 1, i - 1)>> \o split(SubSeq(s, i + 1, Len(s)), sep)

\* sep.join(list)
RECURSIVE join(_, _)
join(list, sep) ==
    IF list = <<>> THEN <<>>
    ELSE IF Len(list) = 1 THEN list[1]
    ELSE list[1] \o <<sep>> \o join(Tail(list), sep)

\* line.strip().split(): the whitespace-separated fields of a line
split_fields(line) == SelectSeq(split(line, " "), LAMBDA f : f # <<>>)

\* re.sub(r'\s', SPACE, transcript)
SubSpace(s, mark) == [i \in 1..Len(s) |-> IF s[i] = " " THEN mark ELSE s[i]]

Range(f) == {f[i] : i \in DOMAIN f}


\* line.strip() (the only whitespace of the model is the space character)
RECURSIVE strip(_)
strip(s) ==
    IF s # <<>> /\ s[1] = " " THEN strip(Tail(s))
    ELSE IF s # <<>> /\ s[Len(s)] = " " THEN strip(SubSeq(s, 1, Len(s) - 1))
    ELSE s

----------------------------------------------------------------------------
(* Module constants of transcript_character.py.                            *)

Letters == {"a", "l"}

\* DOUBLE_LETTERS: the same-letter pairs 'aa' .. 'zz' (of the model's letters)
DOUBLE_LETTERS == {<<c, c>> : c \in Letters}
SPACE == "_"
APOSTROPHE == "'"

SOS == <<"<">>
EOS == <<">">>

----------------------------------------------------------------------------
(* Files.                                                                  *)

NoFile == [exists |-> FALSE, lines |-> <<>>]
File(lines) == [exists |-> TRUE, lines |-> lines]

VocabFileNames ==
    {"character", "character_capital_divide", "phone61", "phone48", "phone39"}

\* f.write('%s\n' % x) for every x of list, into a file opened with 'w'
write_lines(list) == File(list)

----------------------------------------------------------------------------
(* The indexers: Char2idx and Phone2idx.                                   *)

NoIndexer == [loaded |-> FALSE]

\* Char2idx.__init__, "Read the vocabulary file": a line in remove_list gets
\* no index, every other line gets vocab_count, which then grows by one
RECURSIVE Char2idx_read_vocab(_, _, _, _)
Char2idx_read_vocab(lines, remove, map_dict, vocab_count) ==
    IF lines = <<>> THEN [map_dict |-> map_dict, vocab_count |-> vocab_count]
    ELSE LET char == strip(lines[1])
         IN  IF char \in Range(remove)
             THEN Char2idx_read_vocab(Tail(lines), remove, map_dict, vocab_count)
             ELSE Char2idx_read_vocab(Tail(lines), remove,
                                      (char :> vocab_count) @@ map_dict,
                                      vocab_count + 1)

\* an indexer that puts > before <
Char2idx_init_eos_first(lines, capital_divide, double_letter, remove) ==
    LET r == Char2idx_read_vocab(lines, remove, <<>>, 0)
    IN  [loaded         |-> TRUE,
         space_mark     |-> SPACE,
         capital_divide |-> capital_divide,
         double_letter  |-> double_letter,
         remove_list    |-> remove,
         map_dict       |-> (EOS :> r.vocab_count) @@ (SOS :> r.vocab_count + 1)
                                @@ r.map_dict]

\* Char2idx.__init__
Char2idx_init(lines, capital_divide, double_letter, remove) ==
    LET r == Char2idx_read_vocab(lines, remove, <<>>, 0)
    IN  [loaded         |-> TRUE,
         space_mark     |-> SPACE,
         capital_divide |-> capital_divide,
         double_letter  |-> double_letter,
         remove_list    |-> remove,
         map_dict       |-> (EOS :> r.vocab_count + 1) @@ (SOS :> r.vocab_count)
                                @@ r.map_dict]

\* a reading that reserves the index of an excluded line
RECURSIVE Phone2idx_read_vocab_reserving(_, _, _, _)
Phone2idx_read_vocab_reserving(lines, remove, map_dict, vocab_count) ==
    IF lines = <<>> THEN [map_dict |-> map_dict, vocab_count |-> vocab_count]
    ELSE LET phone == strip(lines[1])
         IN  IF phone \in Range(remove)
             THEN Phone2idx_read_vocab_reserving(Tail(lines), remove, map_dict,
                                                 vocab_count + 1)
             ELSE Phone2idx_read_vocab_reserving(Tail(lines), remove,
                                                 (phone :> vocab_count) @@ map_dict,
                                                 vocab_count + 1)

\* Phone2idx.__init__, "Read the vocabulary file"
RECURSIVE Phone2idx_read_vocab(_, _, _, _)
Phone2idx_read_vocab(lines, remove, map_dict, vocab_count) ==
    IF lines = <<>> THEN [map_dict |-> map_dict, vocab_count |-> vocab_count]
    ELSE LET phone == strip(lines[1])
         IN  IF phone \in Range(remove)
             THEN Phone2idx_read_vocab(Tail(lines), remove, map_dict, vocab_count)
             ELSE Phone2idx_read_vocab(Tail(lines), remove,
                                       (phone :> vocab_count) @@ map_dict,
                                       vocab_count + 1)

\* Phone2idx.__init__
Phone2idx_init(lines, remove) ==
    LET r == Phone2idx_read_vocab(lines, remove, <<>>, 0)
    IN  [loaded   |-> TRUE,
         map_dict |-> (EOS :> r.vocab_count + 1) @@ (SOS :> r.vocab_count)
                          @@ r.map_dict]

\* a lookup that drops the absent keys
lookup_skip_absent(map_dict, keys) ==
    LET known == SelectSeq(keys, LAMBDA x : x \in DOMAIN map_dict)
    IN  [error |-> "none",
         index_list |-> [i \in 1..Len(known) |-> map_dict[known[i]]]]

\* list(map(lambda x: map_dict[x], keys)): KeyError at the first absent key
lookup(map_dict, keys) ==
    IF \A i \in 1..Len(keys) : keys[i] \in DOMAIN map_dict
    THEN [error |-> "none", index_list |-> [i \in 1..Len(keys) |-> map_dict[keys[i]]]]
    ELSE [error |-> "KeyError", index_list |-> <<>>]

\* Char2idx.__call__, the "Check double-letters" loop:
\*   for i in range(start, stop) with skip_flag, over the 0-based positions
\* of s; returns the keys looked up and the final skip_flag
RECURSIVE Char2idx_scan(_, _, _, _, _, _)
Char2idx_scan(map_dict, s, i, stop, skip_flag, keys) ==
    IF i >= stop THEN [keys |-> keys, skip_flag |-> skip_flag]
    ELSE IF skip_flag
         THEN Char2idx_scan(map_dict, s, i + 1, stop, FALSE, keys)
    ELSE IF Slice(s, i, i + 2) \in DOMAIN map_dict
         THEN Char2idx_scan(map_dict, s, i + 1, stop, TRUE,
                            Append(keys, Slice(s, i, i + 2)))
    ELSE Char2idx_scan(map_dict, s, i + 1, stop, FALSE, Append(keys, <<s[i + 1]>>))

\* a scan that looks up the last character of the word even after a pair
\* that ends the word
capital_divide_keys_last_always(map_dict, word) ==
    LET first == <<UpperChar(word[1])>>
        body  == Char2idx_scan(map_dict, word, 1, Len(word) - 1, FALSE, <<first>>)
    IN  Append(body.keys, <<word[Len(word)]>>)

\* Char2idx.__call__, capital_divide: the keys looked up for one non-empty word
capital_divide_keys(map_dict, word) ==
    LET first == <<UpperChar(word[1])>>
        body  == Char2idx_scan(map_dict, word, 1, Len(word) - 1, FALSE, <<first>>)
    IN  IF ~body.skip_flag THEN Append(body.keys, <<word[Len(word)]>>)
        ELSE body.keys

\* Char2idx.__call__, double_letter: the keys looked up for a non-empty string
double_letter_keys(map_dict, str_char) ==
    LET body == Char2idx_scan(map_dict, str_char, 0, Len(str_char) - 1, FALSE, <<>>)
    IN  IF ~body.skip_flag THEN Append(body.keys, <<str_char[Len(str_char)]>>)
        ELSE body.keys

\* Char2idx.__call__, capital_divide: word after word; word[0] of an empty
\* word is an IndexError, an absent key a KeyError, whichever comes first
RECURSIVE capital_divide_call(_, _, _)
capital_divide_call(map_dict, words, index_list) ==
    IF words = <<>> THEN [error |-> "none", index_list |-> index_list]
    ELSE IF words[1] = <<>> THEN [error |-> "IndexError", index_list |-> <<>>]
    ELSE LET r == lookup(map_dict, capital_divide_keys(map_dict, words[1]))
         IN  IF r.error # "none" THEN r
             ELSE capital_divide_call(map_dict, Tail(words), index_list \o r.index_list)

\* Char2idx.__call__
Char2idx_call(self, str_char) ==
    IF self.capital_divide
    THEN capital_divide_call(self.map_dict, split(str_char, self.space_mark), <<>>)
    ELSE IF self.double_letter
    THEN IF str_char = <<>>
         THEN [error |-> "IndexError", index_list |-> <<>>]
         ELSE lookup(self.map_dict, double_letter_keys(self.map_dict, str_char))
    ELSE lookup(self.map_dict, [i \in 1..Len(str_char) |-> <<str_char[i]>>])

\* Phone2idx.__call__
Phone2idx_call(self, str_phone) ==
    lookup(self.map_dict, split(str_phone, " "))

\* str(n) of an integer n >= 0
Digit(d) ==
    CASE d = 0 -> "0" [] d = 1 -> "1" [] d = 2 -> "2" [] d = 3 -> "3"
      [] d = 4 -> "4" [] d = 5 -> "5" [] d = 6 -> "6" [] d = 7 -> "7"
      [] d = 8 -> "8" [] d = 9 -> "9"

RECURSIVE Str(_)
Str(n) == IF n < 10 THEN <<Digit(n)>> ELSE Str(n \div 10) \o <<Digit(n % 10)>>

\* ' '.join(list(map(str, indices.tolist()))): the decimal index string, kept
\* together with the integers it spells
index_string(index_list) ==
    [kind  |-> "indices",
     ints  |-> index_list,
     chars |-> join([i \in 1..Len(index_list) |-> Str(index_list[i])], " ")]

\* a raw string in capital letters
raw_string_upper(s) == [kind |-> "text", chars |-> Upper(s)]

\* the transcript saved as it is
raw_string(s) == [kind |-> "text", chars |-> s]

----------------------------------------------------------------------------
(* read_char: cleaning of a transcript line and the two symbol sets.       *)

\* the characters removed by re.sub(r'[\":;!?,.-]+', '', ...)
PUNCTUATION == {"\"", ":", ";", "!", "?", ",", ".", "-"}

\* str.lower() of one character
LowerChar(c) ==
    CASE c = "A" -> "a" [] c = "L" -> "l" [] OTHER -> c

\* one pass of re.sub(r'  ', ' ', transcript)
RECURSIVE sub_double_space(_)
sub_double_space(s) ==
    IF Len(s) < 2 THEN s
    ELSE IF s[1] = " " /\ s[2] = " "
         THEN <<" ">> \o sub_double_space(SubSeq(s, 3, Len(s)))
    ELSE <<s[1]>> \o sub_double_space(Tail(s))

\* while '  ' in transcript: transcript = re.sub(r'  ', ' ', transcript)
RECURSIVE remove_double_spaces(_)
remove_double_spaces(s) ==
    IF \E i \in 1..(Len(s) - 1) : s[i] = " " /\ s[i + 1] = " "
    THEN remove_double_spaces(sub_double_space(s))
    ELSE s

\* read_char, from the last line of a label file to the cleaned transcript;
\* transcript[0] of an empty transcript is an IndexError
clean_line(line) ==
    LET lowered == [i \in 1..Len(strip(line)) |-> LowerChar(strip(line)[i])]
        nopunct == SelectSeq(lowered, LAMBDA c : c \notin PUNCTUATION)
        fields  == split(nopunct, " ")
        joined  == join(SubSeq(fields, 3, Len(fields)), " ")
        single  == remove_double_spaces(joined)
    IN  IF single = <<>> THEN [error |-> "IndexError", transcript |-> <<>>]
        ELSE LET nofirst == IF single[1] = " " THEN Tail(single) ELSE single
             IN  IF nofirst = <<>>
                 THEN [error |-> "IndexError", transcript |-> <<>>]
                 ELSE [error |-> "none",
                       transcript |->
                           IF nofirst[Len(nofirst)] = " "
                           THEN SubSeq(nofirst, 1, Len(nofirst) - 1)
                           ELSE nofirst]

\* read_char, the "Check double-letters" loop of the vocabulary scan:
\*   for i in range(1, len(word) - 1) with skip_flag, against DOUBLE_LETTERS
RECURSIVE read_char_scan(_, _, _, _, _)
read_char_scan(word, i, stop, skip_flag, units) ==
    IF i >= stop THEN [units |-> units, skip_flag |-> skip_flag]
    ELSE IF skip_flag
         THEN read_char_scan(word, i + 1, stop, FALSE, units)
    ELSE IF Slice(word, i, i + 2) \in DOUBLE_LETTERS
         THEN read_char_scan(word, i + 1, stop, TRUE,
                             units \cup {Slice(word, i, i + 2)})
    ELSE read_char_scan(word, i + 1, stop, FALSE, units \cup {<<word[i + 1]>>})

\* read_char, "Capital-divided": the units one non-empty word adds to
\* char_capital_set
capital_units(word) ==
    IF Len(word) = 1 THEN {Upper(word)}
    ELSE LET capital == <<UpperChar(word[1])>> \o Tail(word)
             body    == read_char_scan(capital, 1, Len(capital) - 1, FALSE,
                                       {<<UpperChar(capital[1])>>})
         IN  IF ~body.skip_flag
             THEN body.units \cup {<<capital[Len(capital)]>>}
             ELSE body.units

\* read_char, the units of all words of a cleaned transcript; word[0] of an
\* empty word is an IndexError
capital_units_of(transcript) ==
    LET words == split(transcript, " ")
    IN  IF \E i \in 1..Len(words) : words[i] = <<>>
        THEN [error |-> "IndexError", units |-> {}]
        ELSE [error |-> "none",
              units |-> UNION {capital_units(words[i]) : i \in 1..Len(words)}]

----------------------------------------------------------------------------
(* Inputs: the label files of a split.                                     *)

TextChars ==
    IF labels = "vocab" THEN Letters \cup {" ", APOSTROPHE} ELSE Letters \cup {" "}

\* cleaned texts of n characters: words of letters separated by one space
TextOfLen(n) ==
    {s \in [1..n -> TextChars] :
        /\ s[1] # " "
        /\ s[n] # " "
        /\ \A i \in 1..(n - 1) : ~(s[i] = " " /\ s[i + 1] = " ")}

Texts == UNION {TextOfLen(n) : n \in 1..MaxChars}

\* the last line of a TIMIT .txt label file: "<start> <end> <text>"
LabelLine(text) == <<"0", " ", "1", " ">> \o text

\* raw label lines: capital letters, punctuation, one or two spaces between
\* the fields, and any spaces in the text
RawChars == {"a", "A", ".", " "}

RawBodies == UNION {[1..n -> RawChars] : n \in 1..MaxRawChars}

RawLines ==
    {<<"0">> \o sep1 \o <<"1">> \o sep2 \o body :
        sep1 \in {<<" ">>, <<" ", " ">>},
        sep2 \in {<<" ">>, <<" ", " ">>},
        body \in RawBodies}

\* the last lines the label files of a split may have
LabelLines ==
    IF labels = "raw" THEN RawLines ELSE {LabelLine(text) : text \in Texts}

\* the characters a split may hold in all, after the four characters of the
\* frame markers of each line
CharBudget ==
    IF labels = "all" THEN MaxCharsAll
    ELSE IF labels = "vocab" THEN MaxCharsVocab
    ELSE IF labels = "raw" THEN MaxRawChars
    ELSE MaxChars

RECURSIVE SumLen(_)
SumLen(entries) ==
    IF entries = <<>> THEN 0
    ELSE Len(entries[1].line) - 4 + SumLen(Tail(entries))

----------------------------------------------------------------------------
(* main and read_char.                                                     *)

NoReturn == [called |-> "nothing"]

NextSplit(d) == IF d = "train" THEN "dev" ELSE IF d = "dev" THEN "test" ELSE "end"

\* a call of read_char that asks every split to save the vocabulary
CallReadChar_save_always ==
    /\ pc = "call_read_char"
    /\ save_vocab_file' = TRUE
    /\ is_test' = (data_type = "test")
    /\ trans_dict' = <<>>
    /\ char_set' = {}
    /\ char_capital_set' = {}
    /\ char2idx' = NoIndexer
    /\ char2idx_capital' = NoIndexer
    /\ n_tokenized' = 0
    /\ written' = {}
    /\ returned' = NoReturn
    /\ pc' = "char_scan"
    /\ UNCHANGED <<labels, data_type, files, phone2phone, remove_list,
                   phone61_set, phone48_set, phone39_set, phone2idx_61,
                   phone2idx_48, phone2idx_39, error>>

\* main, "labels (character)": the call of read_char for the current split
CallReadChar ==
    /\ pc = "call_read_char"
    /\ save_vocab_file' = (data_type = "train")
    /\ is_test' = (data_type = "test")
    /\ trans_dict' = <<>>
    /\ char_set' = {}
    /\ char_capital_set' = {}
    /\ char2idx' = NoIndexer
    /\ char2idx_capital' = NoIndexer
    /\ n_tokenized' = 0
    /\ written' = {}
    /\ returned' = NoReturn
    /\ pc' = "char_scan"
    /\ UNCHANGED <<labels, data_type, files, phone2phone, remove_list,
                   phone61_set, phone48_set, phone39_set, phone2idx_61,
                   phone2idx_48, phone2idx_39, error>>

\* read_char, one iteration of "for label_path in label_paths"
ReadCharScan ==
    /\ pc = "char_scan"
    /\ \E line \in LabelLines :
          /\ SumLen(trans_dict) + Len(line) - 4 <= CharBudget
          /\ LET c == clean_line(line)
                 u == capital_units_of(c.transcript)
                 transcript == SubSpace(c.transcript, SPACE)
             IN  IF c.error # "none" \/ u.error # "none"
                 THEN /\ error' = "IndexError"
                      /\ pc' = "failed"
                      /\ UNCHANGED <<char_set, char_capital_set, trans_dict>>
                 ELSE /\ char_capital_set' = char_capital_set \cup u.units
                      /\ char_set' = char_set \cup
                             {<<transcript[i]>> : i \in 1..Len(transcript)}
                      /\ trans_dict' = Append(trans_dict,
                             [line |-> line, transcript |-> transcript,
                              value |-> <<>>])
                      /\ UNCHANGED <<error, pc>>
    /\ UNCHANGED <<labels, data_type, save_vocab_file, is_test, files,
                   phone2phone, remove_list, char2idx, char2idx_capital,
                   phone61_set, phone48_set, phone39_set, phone2idx_61,
                   phone2idx_48, phone2idx_39, n_tokenized, written, returned>>

\* a character list without the space mark
char_list_no_space(set) == sorted(set) \o <<<<APOSTROPHE>>>>

\* a character list that begins with the first symbol the scan met
char_list_first_seen_first(set) ==
    LET c == <<trans_dict[1].transcript[1]>>
    IN  IF trans_dict # <<>> /\ c \in set
        THEN <<c>> \o sorted(set \ {c}) \o <<<<SPACE>>, <<APOSTROPHE>>>>
        ELSE sorted(set) \o <<<<SPACE>>, <<APOSTROPHE>>>>

\* read_char, "Make vocabulary files": the two lists written to the files
char_list(set) == sorted(set) \o <<<<SPACE>>, <<APOSTROPHE>>>>
char_capital_list(set) == sorted(set) \o <<<<APOSTROPHE>>>>

\* read_char, after the scan: reserve the fixed symbols, write the two
\* vocabulary files if asked to, and load the two indexers from the files
ReadCharVocab ==
    /\ pc = "char_scan"
    /\ LET cs  == char_set \ {<<SPACE>>, <<APOSTROPHE>>}
           ccs == char_capital_set \ {<<APOSTROPHE>>}
           fs  == IF save_vocab_file
                  THEN [files EXCEPT
                          !["character"] = write_lines(char_list(cs)),
                          !["character_capital_divide"] =
                              write_lines(char_capital_list(ccs))]
                  ELSE files
       IN  /\ char_set' = cs
           /\ char_capital_set' = ccs
           /\ files' = fs
           /\ written' = IF save_vocab_file
                         THEN {"character", "character_capital_divide"}
                         ELSE {}
           /\ IF fs["character"].exists /\ fs["character_capital_divide"].exists
              THEN /\ char2idx' = Char2idx_init(fs["character"].lines,
                                                FALSE, FALSE, remove_list)
                   /\ char2idx_capital' =
                          Char2idx_init(fs["character_capital_divide"].lines,
                                        TRUE, FALSE, remove_list)
                   /\ pc' = "char_tokenize"
                   /\ UNCHANGED error
              ELSE /\ error' = "IOError"
                   /\ pc' = "failed"
                   /\ UNCHANGED <<char2idx, char2idx_capital>>
    /\ UNCHANGED <<labels, data_type, save_vocab_file, is_test, phone2phone,
                   remove_list, phone61_set, phone48_set, phone39_set,
                   phone2idx_61, phone2idx_48, phone2idx_39, trans_dict,
                   n_tokenized, returned>>

\* read_char, one iteration of "for utt_name, transcript in trans_dict.items()"
ReadCharTokenize ==
    /\ pc = "char_tokenize"
    /\ n_tokenized < Len(trans_dict)
    /\ LET n == n_tokenized + 1
           transcript == trans_dict[n].transcript
           char_indices == Char2idx_call(char2idx, transcript)
           char_indices_capital == Char2idx_call(char2idx_capital, transcript)
       IN  IF is_test
           THEN /\ trans_dict' = [trans_dict EXCEPT ![n].value =
                       <<raw_string(transcript), raw_string(transcript)>>]
                /\ n_tokenized' = n
                /\ UNCHANGED <<error, pc>>
           ELSE IF char_indices.error # "none"
           THEN /\ error' = char_indices.error
                /\ pc' = "failed"
                /\ UNCHANGED <<trans_dict, n_tokenized>>
           ELSE IF char_indices_capital.error # "none"
           THEN /\ error' = char_indices_capital.error
                /\ pc' = "failed"
                /\ UNCHANGED <<trans_dict, n_tokenized>>
           ELSE /\ trans_dict' = [trans_dict EXCEPT ![n].value =
                       <<index_string(char_indices.index_list),
                         index_string(char_indices_capital.index_list)>>]
                /\ n_tokenized' = n
                /\ UNCHANGED <<error, pc>>
    /\ UNCHANGED <<labels, data_type, save_vocab_file, is_test, files,
                   phone2phone, remove_list, char_set, char_capital_set,
                   char2idx, char2idx_capital, phone61_set, phone48_set,
                   phone39_set, phone2idx_61, phone2idx_48, phone2idx_39,
                   written, returned>>

\* read_char, "return trans_dict", and main's step to what follows the call
ReadCharReturn ==
    /\ pc = "char_tokenize"
    /\ n_tokenized = Len(trans_dict)
    /\ returned' = [called |-> "read_char", data_type |-> data_type,
                    trans_dict |-> trans_dict]
    /\ trans_dict' = <<>>
    /\ char_set' = {}
    /\ char_capital_set' = {}
    /\ char2idx' = NoIndexer
    /\ char2idx_capital' = NoIndexer
    /\ n_tokenized' = 0
    /\ IF labels \in {"all", "vocab"}
       THEN pc' = "call_read_phone" /\ UNCHANGED data_type
       ELSE IF labels = "raw"
       THEN pc' = "done" /\ UNCHANGED data_type
       ELSE /\ data_type' = NextSplit(data_type)
            /\ pc' = IF data_type = "test" THEN "done" ELSE "call_read_char"
    /\ UNCHANGED <<labels, save_vocab_file, is_test, files, phone2phone,
                   remove_list, phone61_set, phone48_set, phone39_set,
                   phone2idx_61, phone2idx_48, phone2idx_39, written, error>>

----------------------------------------------------------------------------
(* map_phone2phone and read_phone.                                         *)

NAN == <<"n", "a", "n">>

\* map_phone2phone, "read a mapping file": the dict from the table's lines
\* (every line of the table has its three fields)
RECURSIVE read_mapping(_, _, _)
read_mapping(lines, label_type, map_dict) ==
    IF lines = <<>> THEN map_dict
    ELSE LET line == split_fields(lines[1])
         IN  IF line[2] # NAN
             THEN IF label_type = "phone48"
                  THEN read_mapping(Tail(lines), label_type,
                                    (line[1] :> line[2]) @@ map_dict)
                  ELSE IF label_type = "phone39"
                  THEN read_mapping(Tail(lines), label_type,
                                    (line[1] :> line[3]) @@ map_dict)
                  ELSE read_mapping(Tail(lines), label_type, map_dict)
             ELSE read_mapping(Tail(lines), label_type,
                               (line[1] :> <<>>) @@ map_dict)

\* list.remove(x): the list without the first occurrence of x
list_remove(list, x) ==
    LET i == CHOOSE i \in 1..Len(list) :
                 list[i] = x /\ \A j \in 1..(i - 1) : list[j] # x
    IN  SubSeq(list, 1, i - 1) \o SubSeq(list, i + 1, Len(list))

\* a removal of the first empty string only
ignore_q_once(list) ==
    IF \E i \in 1..Len(list) : list[i] = <<>>
    THEN list_remove(list, <<>>)
    ELSE list

\* while '' in mapped_phone_list: mapped_phone_list.remove('')
RECURSIVE ignore_q(_)
ignore_q(list) ==
    IF \E i \in 1..Len(list) : list[i] = <<>>
    THEN ignore_q(list_remove(list, <<>>))
    ELSE list

\* map_phone2phone
map_phone2phone(phone_list, label_type, lines) ==
    IF label_type = "phone61" THEN phone_list
    ELSE LET map_dict == read_mapping(lines, label_type, <<>>)
             mapped_phone_list ==
                 [i \in 1..Len(phone_list) |->
                     IF phone_list[i] \in DOMAIN map_dict
                     THEN map_dict[phone_list[i]]
                     ELSE phone_list[i]]
         IN  ignore_q(mapped_phone_list)

\* read_phone, "Make the mapping file": the three symbol sets of the table
RECURSIVE phone_sets(_, _, _, _)
phone_sets(lines, set61, set48, set39) ==
    IF lines = <<>> THEN [phone61 |-> set61, phone48 |-> set48, phone39 |-> set39]
    ELSE LET line == split_fields(lines[1])
         IN  IF line[2] # NAN
             THEN phone_sets(Tail(lines), set61 \cup {line[1]},
                             set48 \cup {line[2]}, set39 \cup {line[3]})
             ELSE phone_sets(Tail(lines), set61 \cup {line[1]}, set48, set39)

\* read_phone, the phone column of a label file: line.strip().split(' ')[2]
phone61_list_of(label_lines) ==
    [i \in 1..Len(label_lines) |-> split(strip(label_lines[i]), " ")[3]]

(* Inputs: the collapse table and the phone label files.                   *)

Q  == <<"q">>
AO == <<"a", "o">>
AA == <<"a", "a">>
ZH == <<"z", "h">>
SH == <<"s", "h">>

Phones61 == {Q, AO, ZH}

\* a line of phone2phone.txt: "phone61 phone48 phone39"
TableLine(p61, p48, p39) == join(<<p61, p48, p39>>, " ")

\* the tables: q deleted from both sets (TIMIT) or without a line; ao with
\* its TIMIT line, with nan in one column only, or without a line; zh never
\* has a line
Tables ==
    {qrow \o aorow :
        qrow \in {<<>>, <<TableLine(Q, NAN, NAN)>>},
        aorow \in {<<>>, <<TableLine(AO, AO, AA)>>, <<TableLine(AO, AO, NAN)>>,
                   <<TableLine(AO, NAN, AA)>>}}

\* a line of a TIMIT .phn label file: "<start> <end> <phone>"
SegmentLine(phone) == <<"0", " ", "1", " ">> \o phone

\* the label files of n segments
PhoneFileOfLen(n) ==
    {[i \in 1..n |-> SegmentLine(u[i])] : u \in [1..n -> Phones61]}

PhoneFiles == UNION {PhoneFileOfLen(n) : n \in 1..MaxPhones}

\* the phone segments a split may hold in all
PhoneBudget == IF labels \in {"all", "vocab"} THEN MaxPhonesAll ELSE MaxPhones

RECURSIVE SumPhones(_)
SumPhones(entries) ==
    IF entries = <<>> THEN 0
    ELSE Len(split(entries[1].transcript[1], " ")) + SumPhones(Tail(entries))

\* main, "labels (phone)": the call of read_phone for the current split, and
\* read_phone up to its loop: the symbol sets of the table, and the three
\* vocabulary files written if asked to
CallReadPhone ==
    /\ pc = "call_read_phone"
    /\ LET save == (data_type = "train")
           sets == phone_sets(phone2phone, {}, {}, {})
       IN  /\ save_vocab_file' = save
           /\ is_test' = (data_type = "test")
           /\ phone61_set' = sets.phone61
           /\ phone48_set' = sets.phone48
           /\ phone39_set' = sets.phone39
           /\ files' = IF save
                       THEN [files EXCEPT
                               !["phone61"] = write_lines(sorted(sets.phone61)),
                               !["phone48"] = write_lines(sorted(sets.phone48)),
                               !["phone39"] = write_lines(sorted(sets.phone39))]
                       ELSE files
           /\ written' = IF save THEN {"phone61", "phone48", "phone39"} ELSE {}
    /\ trans_dict' = <<>>
    /\ phone2idx_61' = NoIndexer
    /\ phone2idx_48' = NoIndexer
    /\ phone2idx_39' = NoIndexer
    /\ n_tokenized' = 0
    /\ returned' = NoReturn
    /\ pc' = "phone_scan"
    /\ UNCHANGED <<labels, data_type, phone2phone, remove_list, char_set,
                   char_capital_set, char2idx, char2idx_capital, error>>

\* read_phone, one iteration of "for label_path in label_paths"
ReadPhoneScan ==
    /\ pc = "phone_scan"
    /\ \E label_lines \in PhoneFiles :
          /\ SumPhones(trans_dict) + Len(label_lines) <= PhoneBudget
          /\ LET phone61_list == phone61_list_of(label_lines)
                 phone48_list == map_phone2phone(phone61_list, "phone48", phone2phone)
                 phone39_list == map_phone2phone(phone61_list, "phone39", phone2phone)
             IN  trans_dict' = Append(trans_dict,
                     [transcript |-> <<join(phone61_list, " "),
                                       join(phone48_list, " "),
                                       join(phone39_list, " ")>>,
                      value |-> <<>>])
    /\ UNCHANGED <<labels, data_type, pc, save_vocab_file, is_test, files,
                   phone2phone, remove_list, char_set, char_capital_set,
                   char2idx, char2idx_capital, phone61_set, phone48_set,
                   phone39_set, phone2idx_61, phone2idx_48, phone2idx_39,
                   n_tokenized, written, error, returned>>

\* read_phone, after the scan: load the three indexers from the files
ReadPhoneLoad ==
    /\ pc = "phone_scan"
    /\ IF files["phone61"].exists /\ files["phone48"].exists
           /\ files["phone39"].exists
       THEN /\ phone2idx_61' = Phone2idx_init(files["phone61"].lines, remove_list)
            /\ phone2idx_48' = Phone2idx_init(files["phone48"].lines, remove_list)
            /\ phone2idx_39' = Phone2idx_init(files["phone39"].lines, remove_list)
            /\ pc' = "phone_tokenize"
            /\ UNCHANGED error
       ELSE /\ error' = "IOError"
            /\ pc' = "failed"
            /\ UNCHANGED <<phone2idx_61, phone2idx_48, phone2idx_39>>
    /\ UNCHANGED <<labels, data_type, save_vocab_file, is_test, files,
                   phone2phone, remove_list, char_set, char_capital_set,
                   char2idx, char2idx_capital, phone61_set, phone48_set,
                   phone39_set, trans_dict, n_tokenized, written, returned>>

\* read_phone, one iteration of the tokenize loop
ReadPhoneTokenize ==
    /\ pc = "phone_tokenize"
    /\ n_tokenized < Len(trans_dict)
    /\ LET n == n_tokenized + 1
           trans_phone61 == trans_dict[n].transcript[1]
           trans_phone48 == trans_dict[n].transcript[2]
           trans_phone39 == trans_dict[n].transcript[3]
           phone61_indices == Phone2idx_call(phone2idx_61, trans_phone61)
           phone48_indices == Phone2idx_call(phone2idx_48, trans_phone48)
           phone39_indices == Phone2idx_call(phone2idx_39, trans_phone39)
       IN  IF is_test
           THEN /\ trans_dict' = [trans_dict EXCEPT ![n].value =
                       <<raw_string(trans_phone61), raw_string(trans_phone48),
                         raw_string(trans_phone39)>>]
                /\ n_tokenized' = n
                /\ UNCHANGED <<error, pc>>
           ELSE IF phone61_indices.error # "none"
                   \/ phone48_indices.error # "none"
                   \/ phone39_indices.error # "none"
           THEN /\ error' = "KeyError"
                /\ pc' = "failed"
                /\ UNCHANGED <<trans_dict, n_tokenized>>
           ELSE /\ trans_dict' = [trans_dict EXCEPT ![n].value =
                       <<index_string(phone61_indices.index_list),
                         index_string(phone48_indices.index_list),
                         index_string(phone39_indices.index_list)>>]
                /\ n_tokenized' = n
                /\ UNCHANGED <<error, pc>>
    /\ UNCHANGED <<labels, data_type, save_vocab_file, is_test, files,
                   phone2phone, remove_list, char_set, char_capital_set,
                   char2idx, char2idx_capital, phone61_set, phone48_set,
                   phone39_set, phone2idx_61, phone2idx_48, phone2idx_39,
                   written, returned>>

\* read_phone, "return trans_dict", and main's step to the next split
ReadPhoneReturn ==
    /\ pc = "phone_tokenize"
    /\ n_tokenized = Len(trans_dict)
    /\ returned' = [called |-> "read_phone", data_type |-> data_type,
                    trans_dict |-> trans_dict]
    /\ trans_dict' = <<>>
    /\ phone61_set' = {}
    /\ phone48_set' = {}
    /\ phone39_set' = {}
    /\ phone2idx_61' = NoIndexer
    /\ phone2idx_48' = NoIndexer
    /\ phone2idx_39' = NoIndexer
    /\ n_tokenized' = 0
    /\ data_type' = IF labels = "vocab" THEN data_type ELSE NextSplit(data_type)
    /\ pc' = IF data_type = "test" \/ labels = "vocab" THEN "done"
             ELSE IF labels = "all" THEN "call_read_char"
             ELSE "call_read_phone"
    /\ UNCHANGED <<labels, save_vocab_file, is_test, files, phone2phone,
                   remove_list, char_set, char_capital_set, char2idx,
                   char2idx_capital, written, error>>

----------------------------------------------------------------------------
(* The runs.                                                               *)

NoFiles == [name \in VocabFileNames |-> NoFile]

\* the state before main's loop, labels of one kind or of both
InitRun(kind) ==
    /\ labels = kind
    /\ data_type = "train"
    /\ pc = IF kind = "phone" THEN "call_read_phone" ELSE "call_read_char"
    /\ save_vocab_file = FALSE
    /\ is_test = FALSE
    /\ files = NoFiles
    /\ remove_list = <<>>
    /\ char_set = {}
    /\ char_capital_set = {}
    /\ char2idx = NoIndexer
    /\ char2idx_capital = NoIndexer
    /\ phone61_set = {}
    /\ phone48_set = {}
    /\ phone39_set = {}
    /\ phone2idx_61 = NoIndexer
    /\ phone2idx_48 = NoIndexer
    /\ phone2idx_39 = NoIndexer
    /\ trans_dict = <<>>
    /\ n_tokenized = 0
    /\ written = {}
    /\ error = "none"
    /\ returned = NoReturn

\* character labels only: main's loop over read_char
Init ==
    /\ InitRun("character")
    /\ phone2phone = <<>>

NextChar ==
    \/ CallReadChar
    \/ ReadCharScan
    \/ ReadCharVocab
    \/ ReadCharTokenize
    \/ ReadCharReturn

Next == NextChar

Spec == Init /\ [][Next]_vars

\* phone labels only: main's loop over read_phone, for every table
InitPhone ==
    /\ InitRun("phone")
    /\ phone2phone \in Tables

NextPhone ==
    \/ CallReadPhone
    \/ ReadPhoneScan
    \/ ReadPhoneLoad
    \/ ReadPhoneTokenize
    \/ ReadPhoneReturn

SpecPhone == InitPhone /\ [][NextPhone]_vars

\* main as it is: read_char, then read_phone, for train, dev and test
InitMain ==
    /\ InitRun("all")
    /\ phone2phone \in Tables

NextMain == NextChar \/ NextPhone

SpecMain == InitMain /\ [][NextMain]_vars

\* one call of read_char, as for the train split, on raw label lines
InitRaw ==
    /\ InitRun("raw")
    /\ phone2phone = <<>>

SpecRaw == InitRaw /\ [][NextChar]_vars

\* lines of phone2phone.txt as TIMIT has them, in two orders of the file
TimitTable ==
    <<TableLine(ZH, ZH, SH), TableLine(Q, NAN, NAN), TableLine(AO, AO, AA),
      TableLine(AA, AA, AA)>>

VocabTables ==
    {TimitTable, <<TimitTable[4], TimitTable[3], TimitTable[2], TimitTable[1]>>}

\* the vocabulary-building calls alone: read_char, then read_phone, as in
\* main's iteration for the train split, on texts with apostrophes
InitVocab ==
    /\ InitRun("vocab")
    /\ phone2phone \in VocabTables

NextVocab == NextChar \/ NextPhone

SpecVocab == InitVocab /\ [][NextVocab]_vars


(* The indexers alone: a vocabulary file and an exclusion list handed to   *)
(* the constructors of Char2idx and Phone2idx.                             *)

VocabSymbols == {<<"a">>, <<"l">>, <<"l", "l">>, <<"A">>}

\* vocabulary files: up to MaxVocab lines, one symbol each, none twice
VocabLines ==
    UNION {{v \in [1..n -> VocabSymbols] :
                \A i, j \in 1..n : i # j => v[i] # v[j]} : n \in 0..MaxVocab}

RemoveLists == UNION {[1..n -> VocabSymbols] : n \in 0..MaxRemove}

InitIdx ==
    /\ labels = "none"
    /\ data_type = "none"
    /\ pc = "indexers"
    /\ save_vocab_file = FALSE
    /\ is_test = FALSE
    /\ \E lines \in VocabLines :
          files = [NoFiles EXCEPT !["character"] = File(lines),
                                  !["phone61"] = File(lines)]
    /\ remove_list \in RemoveLists
    /\ phone2phone = <<>>
    /\ char_set = {}
    /\ char_capital_set = {}
    /\ char2idx = NoIndexer
    /\ char2idx_capital = NoIndexer
    /\ phone61_set = {}
    /\ phone48_set = {}
    /\ phone39_set = {}
    /\ phone2idx_61 = NoIndexer
    /\ phone2idx_48 = NoIndexer
    /\ phone2idx_39 = NoIndexer
    /\ trans_dict = <<>>
    /\ n_tokenized = 0
    /\ written = {}
    /\ error = "none"
    /\ returned = NoReturn

\* Char2idx(vocab_file_path, capital_divide=..., double_letter=..., remove_list=...)
NewChar2idx ==
    /\ pc = "indexers"
    /\ \E capital_divide, double_letter \in BOOLEAN :
          char2idx' = Char2idx_init(files["character"].lines, capital_divide,
                                    double_letter, remove_list)
    /\ UNCHANGED <<labels, data_type, pc, save_vocab_file, is_test, files,
                   phone2phone, remove_list, char_set, char_capital_set,
                   char2idx_capital, phone61_set, phone48_set, phone39_set,
                   phone2idx_61, phone2idx_48, phone2idx_39, trans_dict,
                   n_tokenized, written, error, returned>>

\* Phone2idx(vocab_file_path, remove_list=...)
NewPhone2idx ==
    /\ pc = "indexers"
    /\ phone2idx_61' = Phone2idx_init(files["phone61"].lines, remove_list)
    /\ UNCHANGED <<labels, data_type, pc, save_vocab_file, is_test, files,
                   phone2phone, remove_list, char_set, char_capital_set,
                   char2idx, char2idx_capital, phone61_set, phone48_set,
                   phone39_set, phone2idx_48, phone2idx_39, trans_dict,
                   n_tokenized, written, error, returned>>

NextIdx == NewChar2idx \/ NewPhone2idx

SpecIdx == InitIdx /\ [][NextIdx]_vars

----------------------------------------------------------------------------
(* Properties.                                                             *)

\* the call of read_char that builds and saves the vocabularies and indexes
BuildingCall == save_vocab_file /\ ~is_test

\* the words of a stored transcript
WordsOf(transcript) == split(transcript, SPACE)

\* the entries of trans_dict the tokenize loop has replaced by their indices
Tokenized == 1..n_tokenized

\* concatenation of a sequence of strings
RECURSIVE Flatten(_)
Flatten(list) == IF list = <<>> THEN <<>> ELSE list[1] \o Flatten(Tail(list))

(* C1: when read_char builds and saves both vocabularies from a corpus of  *)
(* cleaned, non-empty transcripts and then indexes the transcripts of that *)
(* corpus with the plain and the capital-divided indexer, no symbol lookup *)
(* fails                                                                   *)
C1_NoLookupFailure ==
    BuildingCall => error # "KeyError"

(* C2: the capital-divided indexer looks up exactly one unit for a word of *)
(* length 1, its uppercased letter                                         *)
C2_SingleLetterWordOneUnit ==
    char2idx_capital.loaded =>
        \A n \in 1..Len(trans_dict) :
            \A i \in 1..Len(WordsOf(trans_dict[n].transcript)) :
                LET word == WordsOf(trans_dict[n].transcript)[i]
                IN  Len(word) = 1 =>
                        capital_divide_keys(char2idx_capital.map_dict, word)
                            = <<Upper(word)>>

\* the scan of the body of a word from 1-based position p: a same-letter
\* pair at p is one unit and the scan moves on two positions, any other
\* character is one unit and the scan moves on one position
RECURSIVE BodyUnits(_, _)
BodyUnits(word, p) ==
    IF p > Len(word) THEN <<>>
    ELSE IF p < Len(word) /\ word[p] = word[p + 1] /\ word[p] \in Letters
         THEN <<<<word[p], word[p + 1]>>>> \o BodyUnits(word, p + 2)
    ELSE <<<<word[p]>>>> \o BodyUnits(word, p + 1)

\* the units of a word: its uppercase first letter, then the scan of the rest
WordUnits(word) == <<<<UpperChar(word[1])>>>> \o BodyUnits(word, 2)

\* all units of a word are symbols of the vocabulary
UnitsKnown(map_dict, word) ==
    \A k \in 1..Len(WordUnits(word)) : WordUnits(word)[k] \in DOMAIN map_dict

\* the words of the model of length 2 and more
LongWords == UNION {[1..n -> Letters] : n \in 2..MaxChars}

(* C3: for every word of length >= 2 whose units are all in the            *)
(* vocabulary, the capital-divided indexer looks up the uppercase first    *)
(* letter and then the units of the left-to-right scan of the rest, a      *)
(* same-letter pair as one unit; every character is consumed exactly once; *)
(* the index strings of the tokenized utterances are those of these units  *)
(* (the words are tried on every indexer as it is loaded, before the first *)
(* utterance is tokenized: the map does not change afterwards)             *)
C3_CapitalDivideScan ==
    char2idx_capital.loaded =>
        /\ n_tokenized = 0 =>
            \A word \in LongWords :
              UnitsKnown(char2idx_capital.map_dict, word) =>
                  /\ capital_divide_keys(char2idx_capital.map_dict, word)
                         = WordUnits(word)
                  /\ Flatten(capital_divide_keys(char2idx_capital.map_dict, word))
                         = <<UpperChar(word[1])>> \o Tail(word)
        /\ ~is_test =>
              \A n \in Tokenized :
                  LET words == WordsOf(trans_dict[n].transcript)
                  IN  (\A i \in 1..Len(words) :
                          /\ Len(words[i]) >= 2
                          /\ UnitsKnown(char2idx_capital.map_dict, words[i]))
                      => trans_dict[n].value[2].ints =
                             Flatten([i \in 1..Len(words) |->
                                 [k \in 1..Len(WordUnits(words[i])) |->
                                     char2idx_capital.map_dict[
                                         WordUnits(words[i])[k]]]])

\* an utterance is tokenized whose word of three or more letters holds a
\* same-letter pair, all its units being in the vocabulary
C3_Witness ==
    /\ char2idx_capital.loaded
    /\ ~is_test
    /\ \E n \in Tokenized :
          \E i \in 1..Len(WordsOf(trans_dict[n].transcript)) :
              LET word == WordsOf(trans_dict[n].transcript)[i]
              IN  /\ Len(word) >= 3
                  /\ UnitsKnown(char2idx_capital.map_dict, word)
                  /\ \E k \in 1..Len(WordUnits(word)) :
                        Len(WordUnits(word)[k]) = 2

\* the symbol an index stands for: the inverse of the symbol-to-index map
SymbolOf(map_dict, index) == CHOOSE x \in DOMAIN map_dict : map_dict[x] = index

\* decoding of an index sequence through the inverse map
Decode(map_dict, index_list) ==
    Flatten([i \in 1..Len(index_list) |-> SymbolOf(map_dict, index_list[i])])

(* C6: in the call that builds the character vocabulary, the plain indexer *)
(* emits one index per character of every transcript of the corpus, the    *)
(* map is injective on the transcript's characters, and decoding the index *)
(* sequence through the inverse map gives the stored transcript back       *)
C6_PlainRoundTrip ==
    (BuildingCall /\ char2idx.loaded) =>
        \A n \in 1..Len(trans_dict) :
            LET transcript == trans_dict[n].transcript
                r == Char2idx_call(char2idx, transcript)
            IN  /\ r.error = "none"
                /\ Len(r.index_list) = Len(transcript)
                /\ \A i \in 1..Len(transcript) :
                      \A x \in DOMAIN char2idx.map_dict :
                          char2idx.map_dict[x] = r.index_list[i]
                              => x = <<transcript[i]>>
                /\ Decode(char2idx.map_dict, r.index_list) = transcript
                /\ n \in Tokenized =>
                      /\ trans_dict[n].value[1].ints = r.index_list
                      /\ Decode(char2idx.map_dict, trans_dict[n].value[1].ints)
                             = transcript

\* a transcript of two words of the corpus the vocabulary was built from is
\* tokenized
C6_Witness ==
    /\ BuildingCall
    /\ char2idx.loaded
    /\ \E n \in Tokenized :
          /\ Len(WordsOf(trans_dict[n].transcript)) = 2
          /\ trans_dict[n].value[1].kind = "indices"

\* the lines of a vocabulary file that are not in the exclusion list
Kept(lines, remove) == SelectSeq(lines, LAMBDA x : x \notin Range(remove))

\* map_dict numbers the symbols of list from 0 in list order, then < and >
NumberedInOrder(map_dict, list) ==
    /\ DOMAIN map_dict = Range(list) \cup {SOS, EOS}
    /\ \A i \in 1..Len(list) : map_dict[list[i]] = i - 1
    /\ map_dict[SOS] = Len(list)
    /\ map_dict[EOS] = Len(list) + 1

(* C4: without an exclusion list, Char2idx and Phone2idx give the symbols  *)
(* of a vocabulary file of N lines the indices 0..N-1 in file order, < the *)
(* index N and > the index N+1, for every N, 0 included                    *)
C4_ReservedSlots ==
    remove_list = <<>> =>
        /\ char2idx.loaded =>
              NumberedInOrder(char2idx.map_dict, files["character"].lines)
        /\ phone2idx_61.loaded =>
              NumberedInOrder(phone2idx_61.map_dict, files["phone61"].lines)

\* both indexers are built from a file of two lines or more, no exclusion list
C4_Witness ==
    /\ remove_list = <<>>
    /\ char2idx.loaded
    /\ phone2idx_61.loaded
    /\ Len(files["character"].lines) >= 2

(* C5: with an exclusion list, the excluded lines of the vocabulary file   *)
(* get no index and reserve none: the other symbols are numbered from 0    *)
(* without a gap in file order, and < and > take the next two indices      *)
C5_ExcludedNotNumbered ==
    /\ char2idx.loaded =>
          /\ NumberedInOrder(char2idx.map_dict,
                             Kept(files["character"].lines, remove_list))
          /\ \A x \in Range(remove_list) : x \notin DOMAIN char2idx.map_dict
    /\ phone2idx_61.loaded =>
          /\ NumberedInOrder(phone2idx_61.map_dict,
                             Kept(files["phone61"].lines, remove_list))
          /\ \A x \in Range(remove_list) : x \notin DOMAIN phone2idx_61.map_dict

\* both indexers are built from a file whose first line is excluded and
\* whose second line is kept
C5_Witness ==
    /\ char2idx.loaded
    /\ phone2idx_61.loaded
    /\ Len(files["character"].lines) >= 2
    /\ files["character"].lines[1] \in Range(remove_list)
    /\ files["character"].lines[2] \notin Range(remove_list)

\* the list a space-joined string of symbols stands for
ListOf(str) == IF str = <<>> THEN <<>> ELSE split(str, " ")

\* the fields of the table's line of a symbol (the last one, if several)
TableRow(symbol) ==
    LET rows == SelectSeq(phone2phone,
                          LAMBDA line : split_fields(line)[1] = symbol)
    IN  split_fields(rows[Len(rows)])

InTable(symbol) ==
    \E i \in 1..Len(phone2phone) : split_fields(phone2phone[i])[1] = symbol

\* q is mapped to nan in the 48 and in the 39 column
QDeleted == InTable(Q) /\ TableRow(Q) = <<Q, NAN, NAN>>

\* the number of elements of list that are in set
RECURSIVE CountIn(_, _)
CountIn(list, set) ==
    IF list = <<>> THEN 0
    ELSE (IF list[1] \in set THEN 1 ELSE 0) + CountIn(Tail(list), set)

\* the symbols whose table line has nan in the 48 column
NanIn48 == {x \in Phones61 : InTable(x) /\ TableRow(x)[2] = NAN}

\* the utterances read_phone holds while it scans and tokenizes
PhoneEntries ==
    IF pc \in {"phone_scan", "phone_tokenize"} THEN 1..Len(trans_dict) ELSE {}

(* C7 as claimed: when q is mapped to nan in both columns, the 48- and     *)
(* 39-phone sequences of an utterance that contains q have exactly one     *)
(* element fewer than its 61-phone sequence, and q is in neither the 48-   *)
(* nor the 39-phone vocabulary                                             *)
C7_OneFewer ==
    QDeleted =>
        /\ Q \notin phone48_set \cup phone39_set
        /\ \A n \in PhoneEntries :
              LET phone61_list == ListOf(trans_dict[n].transcript[1])
              IN  Q \in Range(phone61_list) =>
                      /\ Len(ListOf(trans_dict[n].transcript[2]))
                             = Len(phone61_list) - 1
                      /\ Len(ListOf(trans_dict[n].transcript[3]))
                             = Len(phone61_list) - 1

(* C7 as amended: when q is mapped to nan in both columns, the 48- and     *)
(* 39-phone sequences of an utterance have exactly as many elements fewer  *)
(* than its 61-phone sequence as that sequence has occurrences of q and of *)
(* the other symbols with nan in the 48 column (one fewer for a single q), *)
(* and q is in neither the 48- nor the 39-phone vocabulary, set or file    *)
C7_FewerByOccurrences ==
    QDeleted =>
        /\ Q \notin phone48_set \cup phone39_set
        /\ save_vocab_file /\ pc \in {"phone_scan", "phone_tokenize"} =>
              Q \notin Range(files["phone48"].lines)
                           \cup Range(files["phone39"].lines)
        /\ \A n \in PhoneEntries :
              LET phone61_list == ListOf(trans_dict[n].transcript[1])
                  deleted == CountIn(phone61_list, NanIn48)
              IN  /\ Len(map_phone2phone(phone61_list, "phone48", phone2phone))
                         = Len(phone61_list) - deleted
                  /\ Len(map_phone2phone(phone61_list, "phone39", phone2phone))
                         = Len(phone61_list) - deleted
                  /\ trans_dict[n].transcript[2] = join(
                         map_phone2phone(phone61_list, "phone48", phone2phone), " ")
                  /\ trans_dict[n].transcript[3] = join(
                         map_phone2phone(phone61_list, "phone39", phone2phone), " ")
                  /\ \A k \in 2..3 :
                        /\ <<>> \notin Range(ListOf(trans_dict[n].transcript[k]))
                        /\ Len(ListOf(trans_dict[n].transcript[k]))
                               = Len(phone61_list) - deleted

\* an utterance of q and another phone is read with q mapped to nan
C7_Witness ==
    /\ QDeleted
    /\ \E n \in PhoneEntries :
          LET phone61_list == ListOf(trans_dict[n].transcript[1])
          IN  /\ Q \in Range(phone61_list)
              /\ AO \in Range(phone61_list)

\* what the table asks of a 61-phone sequence for the target column col (2
\* for the 48, 3 for the 39 set): a symbol with nan in that column is
\* removed, one with another entry is replaced by it, one without a line
\* stays; the order is kept
RECURSIVE Collapsed(_, _)
Collapsed(phone_list, col) ==
    IF phone_list = <<>> THEN <<>>
    ELSE LET x == phone_list[1]
         IN  (IF ~InTable(x) THEN <<x>>
              ELSE IF TableRow(x)[col] = NAN THEN <<>>
              ELSE <<TableRow(x)[col]>>) \o Collapsed(Tail(phone_list), col)

(* C8: map_phone2phone removes a symbol for the target phone48 or phone39  *)
(* exactly if its table line has nan in the column of that target,         *)
(* replaces a symbol with another entry by that entry, passes a symbol     *)
(* without a line through, leaves no placeholder and keeps the order       *)
C8_DeletedIffNanInTargetColumn ==
    \A n \in PhoneEntries :
        LET phone61_list == ListOf(trans_dict[n].transcript[1])
        IN  /\ map_phone2phone(phone61_list, "phone48", phone2phone)
                   = Collapsed(phone61_list, 2)
            /\ map_phone2phone(phone61_list, "phone39", phone2phone)
                   = Collapsed(phone61_list, 3)
            /\ trans_dict[n].transcript[2] = join(Collapsed(phone61_list, 2), " ")
            /\ trans_dict[n].transcript[3] = join(Collapsed(phone61_list, 3), " ")

\* the symbols the indexers look up for a transcript: its characters, the
\* units of its words, the space-separated phones
PlainSymbols(transcript) == [i \in 1..Len(transcript) |-> <<transcript[i]>>]
CapitalSymbols(map_dict, transcript) ==
    Flatten([i \in 1..Len(WordsOf(transcript)) |->
                capital_divide_keys(map_dict, WordsOf(transcript)[i])])
PhoneSymbols(str_phone) == split(str_phone, " ")

\* every symbol has an index, and ints holds the indices in order
Indexed(map_dict, symbols, ints) ==
    /\ \A i \in 1..Len(symbols) : symbols[i] \in DOMAIN map_dict
    /\ Len(ints) = Len(symbols)
    /\ \A i \in 1..Len(symbols) : ints[i] = map_dict[symbols[i]]

SomeAbsent(map_dict, symbols) ==
    \E i \in 1..Len(symbols) : symbols[i] \notin DOMAIN map_dict

\* the indexing of entry n of read_char, of read_phone, meets no absent symbol
CharEntryKnown(n) ==
    /\ ~SomeAbsent(char2idx.map_dict, PlainSymbols(trans_dict[n].transcript))
    /\ ~SomeAbsent(char2idx_capital.map_dict,
                   CapitalSymbols(char2idx_capital.map_dict,
                                  trans_dict[n].transcript))
PhoneEntryKnown(n) ==
    /\ ~SomeAbsent(phone2idx_61.map_dict, PhoneSymbols(trans_dict[n].transcript[1]))
    /\ ~SomeAbsent(phone2idx_48.map_dict, PhoneSymbols(trans_dict[n].transcript[2]))
    /\ ~SomeAbsent(phone2idx_39.map_dict, PhoneSymbols(trans_dict[n].transcript[3]))

(* C9: outside test mode no symbol absent from the vocabulary map is       *)
(* dropped or replaced: every tokenized utterance has all its symbols in   *)
(* the map and one index per symbol, in order; the first utterance with an *)
(* absent symbol ends read_char / read_phone with a KeyError, nothing is   *)
(* returned, and a KeyError has no other cause                             *)
C9_AbsentSymbolFails ==
    /\ [](/\ (char2idx.loaded /\ char2idx_capital.loaded /\ ~is_test) =>
                /\ \A n \in Tokenized :
                      /\ Indexed(char2idx.map_dict,
                                 PlainSymbols(trans_dict[n].transcript),
                                 trans_dict[n].value[1].ints)
                      /\ Indexed(char2idx_capital.map_dict,
                                 CapitalSymbols(char2idx_capital.map_dict,
                                                trans_dict[n].transcript),
                                 trans_dict[n].value[2].ints)
                /\ (pc = "failed" /\ error = "KeyError") =>
                      ~CharEntryKnown(n_tokenized + 1)
          /\ (phone2idx_61.loaded /\ ~is_test) =>
                /\ \A n \in Tokenized :
                      \A k \in 1..3 :
                          Indexed((<<phone2idx_61, phone2idx_48,
                                     phone2idx_39>>[k]).map_dict,
                                  PhoneSymbols(trans_dict[n].transcript[k]),
                                  trans_dict[n].value[k].ints)
                /\ (pc = "failed" /\ error = "KeyError") =>
                      ~PhoneEntryKnown(n_tokenized + 1)
          /\ error = "KeyError" =>
                /\ pc = "failed"
                /\ ~is_test
                /\ returned = NoReturn
                /\ n_tokenized < Len(trans_dict)
                /\ trans_dict[n_tokenized + 1].value = <<>>)
    /\ [][(/\ pc = "char_tokenize"
           /\ ~is_test
           /\ n_tokenized < Len(trans_dict)
           /\ ~CharEntryKnown(n_tokenized + 1)) =>
              (pc' = "failed" /\ error' = "KeyError")]_vars
    /\ [][(/\ pc = "phone_tokenize"
           /\ ~is_test
           /\ n_tokenized < Len(trans_dict)
           /\ ~PhoneEntryKnown(n_tokenized + 1)) =>
              (pc' = "failed" /\ error' = "KeyError")]_vars

\* the dev call of read_phone has ended with a KeyError after the train
\* calls and the dev call of read_char went through
C9_Witness ==
    /\ pc = "failed"
    /\ error = "KeyError"
    /\ data_type = "dev"
    /\ phone2idx_61.loaded
    /\ returned = NoReturn

\* the vocabulary file of each indexer of the current call
LoadedFrom ==
    /\ char2idx.loaded =>
          NumberedInOrder(char2idx.map_dict, files["character"].lines)
    /\ char2idx_capital.loaded =>
          NumberedInOrder(char2idx_capital.map_dict,
                          files["character_capital_divide"].lines)
    /\ phone2idx_61.loaded =>
          NumberedInOrder(phone2idx_61.map_dict, files["phone61"].lines)
    /\ phone2idx_48.loaded =>
          NumberedInOrder(phone2idx_48.map_dict, files["phone48"].lines)
    /\ phone2idx_39.loaded =>
          NumberedInOrder(phone2idx_39.map_dict, files["phone39"].lines)

(* C10: over main's train, dev, test sequence a vocabulary file is written *)
(* only by a call with save_vocab_file=True, which is a call of the train  *)
(* split; no step of the dev and test calls changes a vocabulary file; and *)
(* the indexers of every call are loaded from the files as they are, which *)
(* for dev and test is the content the train split wrote                   *)
C10_VocabWrittenByTrainOnly ==
    /\ [][\A name \in VocabFileNames :
              files'[name] # files[name] =>
                  /\ data_type = "train"
                  /\ save_vocab_file'
                  /\ name \in written']_vars
    /\ [][data_type' # "train" => files' = files]_vars
    /\ [](written # {} => save_vocab_file)
    /\ []LoadedFrom

\* the test call of read_phone tokenizes with indexers loaded from the files
\* the train split wrote
C10_Witness ==
    /\ data_type = "test"
    /\ pc = "phone_tokenize"
    /\ n_tokenized > 0
    /\ phone2idx_61.loaded
    /\ files["character"].exists
    /\ files["phone61"].exists

(* C11: within one call of read_char or read_phone that saves the          *)
(* vocabulary, each vocabulary file is written once, and no utterance file *)
(* is read after a vocabulary file of the call has been written            *)
C11_WriteAfterScan ==
    /\ [][\A name \in VocabFileNames :
              files'[name] # files[name] => name \notin written]_vars
    /\ [][trans_dict' # trans_dict /\ pc \in {"char_scan", "phone_scan"} =>
              written = {}]_vars

\* the fixed symbols that end the vocabulary file of each scheme
FixedSymbols(name) ==
    IF name = "character" THEN <<<<SPACE>>, <<APOSTROPHE>>>>
    ELSE IF name = "character_capital_divide" THEN <<<<APOSTROPHE>>>>
    ELSE <<>>

\* list is strictly ascending in the order of Python string comparison
Ascending(list) ==
    \A i \in 1..(Len(list) - 1) : StrLess(list[i], list[i + 1])

(* C12: every vocabulary file read_char and read_phone write is a sorted,  *)
(* duplicate-free list of symbols followed by the fixed symbols of its     *)
(* scheme and nothing else (_ then ' for character, ' for                  *)
(* character_capital_divide, none for the phone files), and no fixed       *)
(* symbol is in the sorted part                                            *)
C12_SortedThenFixed ==
    \A name \in VocabFileNames :
        files[name].exists =>
            LET lines == files[name].lines
                fixed == FixedSymbols(name)
                n     == Len(lines) - Len(fixed)
            IN  /\ n >= 0
                /\ SubSeq(lines, n + 1, Len(lines)) = fixed
                /\ Ascending(SubSeq(lines, 1, n))
                /\ \A i \in 1..n : lines[i] \notin Range(fixed)

\* both character files are written from a corpus that holds an apostrophe
\* and a space, with two or more symbols in the sorted part
C12_Witness ==
    /\ pc = "char_tokenize"
    /\ written = {"character", "character_capital_divide"}
    /\ Len(files["character"].lines) >= 4
    /\ \E n \in 1..Len(trans_dict) :
          /\ APOSTROPHE \in Range(trans_dict[n].transcript)
          /\ SPACE \in Range(trans_dict[n].transcript)

\* the corpus of the current call of read_char as a set: the order and the
\* number of the utterances are forgotten
CorpusTexts == {trans_dict[n].transcript : n \in 1..Len(trans_dict)}

\* the characters, and the capital-divided units, of a set of transcripts
SeenChars(corpus) == UNION {{<<t[i]>> : i \in 1..Len(t)} : t \in corpus}
SeenUnits(corpus) ==
    UNION {UNION {capital_units(WordsOf(t)[i]) : i \in 1..Len(WordsOf(t))} :
              t \in corpus}

\* the collapse table as a set of rows: the order of its lines is forgotten
TableRows == {split_fields(phone2phone[i]) : i \in 1..Len(phone2phone)}

\* the symbols of each vocabulary, from the unordered inputs alone
SymbolsFor(name) ==
    IF name = "character"
    THEN SeenChars(CorpusTexts) \ {<<SPACE>>, <<APOSTROPHE>>}
    ELSE IF name = "character_capital_divide"
    THEN SeenUnits(CorpusTexts) \ {<<APOSTROPHE>>}
    ELSE IF name = "phone61" THEN {r[1] : r \in TableRows}
    ELSE IF name = "phone48" THEN {r[2] : r \in {x \in TableRows : x[2] # NAN}}
    ELSE {r[3] : r \in {x \in TableRows : x[2] # NAN}}

\* the call that wrote the files of written still holds its corpus
WritingCall ==
    pc \in {"char_tokenize", "phone_scan", "phone_tokenize"}

(* C13: the content of every vocabulary file a call writes is determined   *)
(* by the set of symbols of its inputs alone: it is the ascending list of  *)
(* that set, followed by the fixed symbols; so two builds from the same    *)
(* corpus in two utterance orders write identical files                    *)
C13_VocabularyDeterminism ==
    WritingCall =>
        \A name \in written :
            LET lines == files[name].lines
                n     == Len(lines) - Len(FixedSymbols(name))
            IN  /\ n = Cardinality(SymbolsFor(name))
                /\ Range(SubSeq(lines, 1, n)) = SymbolsFor(name)
                /\ Ascending(SubSeq(lines, 1, n))
                /\ SubSeq(lines, n + 1, Len(lines)) = FixedSymbols(name)

\* the character files are written from a corpus of two utterances read in
\* descending order of their texts, with symbols first seen in descending
\* order
C13_Witness ==
    /\ pc = "char_tokenize"
    /\ written = {"character", "character_capital_divide"}
    /\ Len(trans_dict) = 2
    /\ StrLess(trans_dict[2].transcript, trans_dict[1].transcript)
    /\ StrLess(<<trans_dict[2].transcript[1]>>, <<trans_dict[1].transcript[1]>>)
    /\ trans_dict[1].transcript[1] \in Letters
    /\ trans_dict[2].transcript[1] \in Letters

\* the symbols a later transcript can hold
AnySymbol ==
    {<<c>> : c \in Letters} \cup {<<SPACE>>, <<APOSTROPHE>>} \cup Phones61 \cup {AA, SH}

(* C14: a saving call of read_char or read_phone on a corpus without       *)
(* utterances raises no error and leaves empty vocabularies, so that the   *)
(* lookup of any symbol in the indexers built from them fails              *)
C14_EmptyCorpusEmptyVocabulary ==
    (save_vocab_file /\ trans_dict = <<>>) =>
        /\ pc = "char_tokenize" =>
              /\ error = "none"
              /\ files["character"].lines = <<>>
              /\ files["character_capital_divide"].lines = <<>>
              /\ \A x \in AnySymbol :
                    /\ lookup(char2idx.map_dict, <<x>>).error = "KeyError"
                    /\ lookup(char2idx_capital.map_dict, <<x>>).error = "KeyError"
        /\ pc = "phone_tokenize" =>
              /\ error = "none"
              /\ \A name \in {"phone61", "phone48", "phone39"} :
                    files[name].lines = <<>>
              /\ \A x \in AnySymbol :
                    lookup(phone2idx_61.map_dict, <<x>>).error = "KeyError"

\* a string of one or more decimal numbers separated by single spaces
IsIndexString(chars) ==
    \A i \in 1..Len(split(chars, " ")) :
        LET field == split(chars, " ")[i]
        IN  /\ field # <<>>
            /\ \A j \in 1..Len(field) : field[j] \in {Digit(d) : d \in 0..9}

\* the strings read_phone keeps for an utterance, read_char keeps one
StoredStrings(entry) ==
    IF pc = "phone_tokenize" THEN entry.transcript
    ELSE <<entry.transcript, entry.transcript>>

(* C15: in test mode read_char and read_phone look up no symbol: every     *)
(* utterance keeps (transcript, transcript), respectively its three raw    *)
(* space-joined phone strings, unchanged, and the call never fails with a  *)
(* lookup error, whatever the vocabulary holds; outside test mode every    *)
(* output element is a string of decimal indices separated by spaces       *)
C15_TestModeKeepsText ==
    /\ is_test => error # "KeyError"
    /\ pc \in {"char_tokenize", "phone_tokenize"} =>
          \A n \in Tokenized :
              LET stored == StoredStrings(trans_dict[n])
                  value  == trans_dict[n].value
              IN  /\ Len(value) = Len(stored)
                  /\ \A k \in 1..Len(stored) :
                        IF is_test
                        THEN /\ value[k].kind = "text"
                             /\ value[k].chars = stored[k]
                        ELSE /\ value[k].kind = "indices"
                             /\ IsIndexString(value[k].chars)
                             /\ Len(split(value[k].chars, " ")) = Len(value[k].ints)
                             /\ \A i \in 1..Len(value[k].ints) :
                                   split(value[k].chars, " ")[i] = Str(value[k].ints[i])
    /\ returned # NoReturn =>
          \A n \in 1..Len(returned.trans_dict) :
              \A k \in 1..Len(returned.trans_dict[n].value) :
                  returned.trans_dict[n].value[k].kind =
                      IF returned.data_type = "test" THEN "text" ELSE "indices"

\* the test call of read_char has kept the text of an utterance that holds
\* a character absent from the vocabulary the train call wrote
C15_Witness ==
    /\ is_test
    /\ pc = "char_tokenize"
    /\ \E n \in Tokenized :
          /\ SomeAbsent(char2idx.map_dict, PlainSymbols(trans_dict[n].transcript))
          /\ trans_dict[n].value[1].chars = trans_dict[n].transcript

\* the cleaned transcript the description asks for: the line in lower case
\* without punctuation, its first two whitespace-separated fields discarded,
\* the other fields joined by single spaces
CleanedText(line) ==
    LET lowered == [i \in 1..Len(line) |-> LowerChar(line[i])]
        nopunct == SelectSeq(lowered, LAMBDA c : c \notin PUNCTUATION)
        fields  == split_fields(nopunct)
    IN  join(SubSeq(fields, 3, Len(fields)), " ")

(* C16: for every final transcript line, whatever whitespace separates its *)
(* fields, the transcript read_char keeps is the lowercased line without   *)
(* punctuation and without its first two whitespace-separated fields (the  *)
(* frame markers): it holds neither marker, no run of two spaces and no    *)
(* leading or trailing space                                               *)
C16_CleanedTranscript ==
    pc \in {"char_scan", "char_tokenize"} =>
        \A n \in 1..Len(trans_dict) :
            LET transcript == trans_dict[n].transcript
            IN  /\ transcript = SubSpace(CleanedText(trans_dict[n].line), SPACE)
                /\ "0" \notin Range(transcript)
                /\ "1" \notin Range(transcript)
                /\ transcript # <<>>
                /\ transcript[1] # SPACE
                /\ transcript[Len(transcript)] # SPACE
                /\ \A i \in 1..(Len(transcript) - 1) :
                      ~(transcript[i] = SPACE /\ transcript[i + 1] = SPACE)

(* C17: the capital-divided vocabulary builder and the capital-divided     *)
(* indexer segment alike: for every word of every transcript of the corpus *)
(* the vocabulary was built from, words of length 1 and 2 included, the    *)
(* units the indexer looks up for the word are exactly the units the scan  *)
(* of read_char added to the capital-divided symbol set for it             *)
C17_BuilderAndIndexerAgree ==
    (BuildingCall /\ char2idx_capital.loaded) =>
        \A n \in 1..Len(trans_dict) :
            \A i \in 1..Len(WordsOf(trans_dict[n].transcript)) :
                LET word == WordsOf(trans_dict[n].transcript)[i]
                IN  Range(capital_divide_keys(char2idx_capital.map_dict, word))
                        = capital_units(word)

\* the vocabulary maps of read_phone, for the 61, 48 and 39 phone strings
PhoneMaps == <<phone2idx_61.map_dict, phone2idx_48.map_dict, phone2idx_39.map_dict>>

(* C18: outside test mode read_phone gives every utterance three index     *)
(* strings with one integer per phone of the corresponding sequence: per   *)
(* segment line for phone61, per phone that is not deleted for phone48 and *)
(* phone39, zero included: an utterance of deleted phones only gets empty  *)
(* 48 and 39 index strings, and the call fails for an utterance only if    *)
(* one of its phones is absent from the vocabulary                         *)
C18_OneIndexPerPhone ==
    (phone2idx_61.loaded /\ ~is_test) =>
        /\ \A n \in Tokenized :
              \A k \in 1..3 :
                  /\ Len(trans_dict[n].value[k].ints)
                         = Len(ListOf(trans_dict[n].transcript[k]))
                  /\ trans_dict[n].transcript[k] = <<>> =>
                         trans_dict[n].value[k].chars = <<>>
        /\ (pc = "failed" /\ error = "KeyError") =>
              \E k \in 1..3 :
                  \E x \in Range(ListOf(trans_dict[n_tokenized + 1].transcript[k])) :
                      x \notin DOMAIN PhoneMaps[k]

============================================================================
